---- MODULE Spec2Model ----
\* Model of the text clipping and splitting helpers of bridge/helper/helper.go:
\* GetSubLines, ClipMessage and ClipOrSplitMessage.  Strings are Go strings,
\* i.e. sequences of bytes (0..255), indexed from 0 in the source and from 1
\* here; Slice(s, lo, hi) is the Go expression s[lo:hi].
EXTENDS Integers, Sequences, FiniteSets, TLC

\* ---------------------------------------------------------------- bounds
MaxChars == 3     \* a text has at most MaxChars characters before its padding
PadLen == 15      \* length of the optional run of ASCII padding that follows
MaxBudget == 5    \* small budgets range over -1..MaxBudget
MaxParts == 3     \* splitMax ranges over 0..MaxParts

\* ------------------------------------------------- unicode/utf8 constants
RuneError == 65533
RuneSelf == 128
UTFMax == 4

\* ---------------------------------------------------------- Go primitives
Slice(s, lo, hi) == SubSeq(s, lo + 1, hi)

\* " <clipped message>"
DefaultClippingMessage ==
  <<32, 60, 99, 108, 105, 112, 112, 101, 100, 32, 109, 101, 115, 115, 97, 103, 101, 62>>

\* utf8.RuneStart: the byte is not a continuation byte
RuneStart(b) == b < 128 \/ b >= 192

\* size announced by a first byte (utf8.first): 1 ASCII, 0 invalid
FirstSize(b) ==
  IF b < 128 THEN 1
  ELSE IF b < 194 THEN 0
  ELSE IF b < 224 THEN 2
  ELSE IF b < 240 THEN 3
  ELSE IF b < 245 THEN 4
  ELSE 0

\* utf8.acceptRanges: the range allowed for the second byte
AcceptLo(b) == IF b = 224 THEN 160 ELSE IF b = 240 THEN 144 ELSE 128
AcceptHi(b) == IF b = 237 THEN 159 ELSE IF b = 244 THEN 143 ELSE 191

DecodeRuneInString(s) ==
  LET err == [r |-> RuneError, size |-> 1] IN
  IF Len(s) < 1 THEN [r |-> RuneError, size |-> 0]
  ELSE LET s0 == s[1]
           sz == FirstSize(s0)
       IN IF sz = 1 THEN [r |-> s0, size |-> 1]
          ELSE IF sz = 0 THEN err
          ELSE IF Len(s) < sz THEN err
          ELSE IF s[2] < AcceptLo(s0) \/ AcceptHi(s0) < s[2] THEN err
          ELSE IF sz <= 2 THEN [r |-> (s0 % 32) * 64 + (s[2] % 64), size |-> 2]
          ELSE IF s[3] < 128 \/ 191 < s[3] THEN err
          ELSE IF sz <= 3
            THEN [r |-> (s0 % 16) * 4096 + (s[2] % 64) * 64 + (s[3] % 64), size |-> 3]
          ELSE IF s[4] < 128 \/ 191 < s[4] THEN err
          ELSE [r |-> (s0 % 8) * 262144 + (s[2] % 64) * 4096 + (s[3] % 64) * 64 + (s[4] % 64),
                size |-> 4]

\* the backward scan of DecodeLastRuneInString: for start--; start >= lim; start--
RECURSIVE ScanBack(_, _, _)
ScanBack(s, start, lim) ==
  IF start < lim THEN start
  ELSE IF RuneStart(s[start + 1]) THEN start
  ELSE ScanBack(s, start - 1, lim)

DecodeLastRuneInString(s) ==
  LET end == Len(s) IN
  IF end = 0 THEN [r |-> RuneError, size |-> 0]
  ELSE IF s[end] < RuneSelf THEN [r |-> s[end], size |-> 1]
  ELSE LET lim == IF end - UTFMax < 0 THEN 0 ELSE end - UTFMax
           st == ScanBack(s, end - 2, lim)
           start == IF st < 0 THEN 0 ELSE st
           d == DecodeRuneInString(Slice(s, start, end))
       IN IF start + d.size # end THEN [r |-> RuneError, size |-> 1] ELSE d

\* utf8.ValidString
RECURSIVE ValidString(_)
ValidString(s) ==
  IF Len(s) = 0 THEN TRUE
  ELSE LET d == DecodeRuneInString(s) IN
       IF d.r = RuneError /\ d.size = 1 THEN FALSE
       ELSE ValidString(Slice(s, d.size, Len(s)))

\* ------------------------------------------------------------ ClipMessage
\* line 212-214: the empty marker is replaced by the default one
EffectiveMarker(clippingMessage) ==
  IF clippingMessage = <<>> THEN DefaultClippingMessage ELSE clippingMessage

\* mutant of NeedsClip: the comparison is off by one
NeedsClipAtLength(text, length) == Len(text) >= length

\* line 216: the text is cut when it is longer than length
NeedsClip(text, length) == Len(text) > length

\* mutant of ClipCut: no room is left for the marker
ClipCutNoMarker(length, cm) == length

\* line 217: upper index of text[:length-len(clippingMessage)]
ClipCut(length, cm) == length - Len(cm)

\* line 219: the test made on the last rune of the text
LastRuneIsError(t) == DecodeLastRuneInString(t).r = RuneError

\* lines 218-230: drop bytes from the end while the last rune decodes to RuneError
RECURSIVE TrimBrokenTail(_)
TrimBrokenTail(t) ==
  IF Len(t) > 0 /\ LastRuneIsError(t)
    THEN TrimBrokenTail(Slice(t, 0, Len(t) - 1))
    ELSE t

\* lines 211-234.  A slice with a negative upper index is a run-time panic.
ClipMessage(text, length, clippingMessage) ==
  LET cm == EffectiveMarker(clippingMessage) IN
  IF NeedsClip(text, length)
    THEN IF ClipCut(length, cm) < 0
           THEN [panic |-> TRUE, text |-> <<>>]
           ELSE [panic |-> FALSE,
                 text |-> TrimBrokenTail(Slice(text, 0, ClipCut(length, cm))) \o cm]
    ELSE [panic |-> FALSE, text |-> text]

\* ----------------------------------------------------- ClipOrSplitMessage
\* mutant of SplitCond: the part kept for the final clip is not counted
SplitCondOneMore(msgParts, remainingText, length, splitMax) ==
  Len(msgParts) < splitMax /\ Len(remainingText) > length

\* line 241: the condition of the splitting loop
SplitCond(msgParts, remainingText, length, splitMax) ==
  Len(msgParts) < splitMax - 1 /\ Len(remainingText) > length

\* lines 244-254: the inner loop; the chunk is the last slice that was tried
RECURSIVE ChunkLoop(_, _, _, _)
ChunkLoop(remainingText, length, wasted, chunk) ==
  IF wasted < 4 /\ wasted < length
    THEN LET c == Slice(remainingText, 0, length - wasted) IN
         IF DecodeLastRuneInString(c).r = RuneError
           THEN ChunkLoop(remainingText, length, wasted + 1, c)
           ELSE c
    ELSE chunk

\* lines 243-254: var chunk string; wasted := 0; for ...
Chunk(remainingText, length) == ChunkLoop(remainingText, length, 0, <<>>)

\* mutant of Advance: the remainder skips a full budget, also after a back-up
AdvanceByLength(remainingText, chunk, length) ==
  IF length < 0 THEN remainingText ELSE Slice(remainingText, length, Len(remainingText))

\* line 257: remainingText = remainingText[len(chunk):]
Advance(remainingText, chunk, length) ==
  Slice(remainingText, Len(chunk), Len(remainingText))

\* ------------------------------------------------------------ GetSubLines
\* unicode.IsSpace
IsSpace(r) ==
  \/ r \in 9..13
  \/ r \in {32, 133, 160, 5760, 8232, 8233, 8239, 8287, 12288}
  \/ r \in 8192..8202

RECURSIVE TrimLeftSpace(_)
TrimLeftSpace(s) ==
  IF Len(s) = 0 THEN s
  ELSE LET d == DecodeRuneInString(s) IN
       IF IsSpace(d.r) THEN TrimLeftSpace(Slice(s, d.size, Len(s))) ELSE s

RECURSIVE TrimRightSpace(_)
TrimRightSpace(s) ==
  IF Len(s) = 0 THEN s
  ELSE LET d == DecodeLastRuneInString(s) IN
       IF IsSpace(d.r) THEN TrimRightSpace(Slice(s, 0, Len(s) - d.size)) ELSE s

\* strings.TrimSpace
TrimSpace(s) == TrimRightSpace(TrimLeftSpace(s))

\* index (from 0) of the first newline at or after i, or -1
RECURSIVE IndexNL(_, _)
IndexNL(s, i) ==
  IF i >= Len(s) THEN -1
  ELSE IF s[i + 1] = 10 THEN i
  ELSE IndexNL(s, i + 1)

\* strings.Split(s, "\n")
RECURSIVE SplitNL(_)
SplitNL(s) ==
  LET i == IndexNL(s, 0) IN
  IF i < 0 THEN <<s>>
  ELSE <<Slice(s, 0, i)>> \o SplitNL(Slice(s, i + 1, Len(s)))

\* the indices visited by  for i := range line : the start of every rune,
\* an undecodable byte counting as a rune of width 1
RECURSIVE RuneStarts(_, _)
RuneStarts(line, i) ==
  IF i >= Len(line) THEN <<>>
  ELSE <<i>> \o RuneStarts(line, i + DecodeRuneInString(Slice(line, i, Len(line))).size)

\* mutant of SkipLine: no line is skipped
SkipNoLine(line) == FALSE

\* line 93: a line without content is skipped
SkipLine(line) == line = <<>>

\* line 99: the line is emitted unchanged
FitsLine(line, maxLineLength) == maxLineLength = 0 \/ Len(line) <= maxLineLength

\* line 111: the test that starts a new piece
MustCut(i, splitStart, maxLineLength, cm) == i - splitStart > maxLineLength - Len(cm)

\* mutant of NextSplitStart: the next piece starts at the current rune
NextSplitStartAtCurrent(i, startOfPreviousRune) == i

\* line 113: where the next piece starts
NextSplitStart(i, startOfPreviousRune) == startOfPreviousRune

\* line 120: the last piece, emitted without the marker
LastPiece(line, splitStart) == Slice(line, splitStart, Len(line))

\* lines 108-120: k is the position in the range loop, acc the pieces emitted
RECURSIVE CutLoop(_, _, _, _, _, _, _, _)
CutLoop(line, starts, k, splitStart, startOfPreviousRune, maxLineLength, cm, acc) ==
  IF k > Len(starts) THEN Append(acc, LastPiece(line, splitStart))
  ELSE LET i == starts[k] IN
       IF MustCut(i, splitStart, maxLineLength, cm)
         THEN CutLoop(line, starts, k + 1, NextSplitStart(i, startOfPreviousRune), i,
                      maxLineLength, cm,
                      Append(acc, Slice(line, splitStart, startOfPreviousRune) \o cm))
         ELSE CutLoop(line, starts, k + 1, splitStart, i, maxLineLength, cm, acc)

\* lines 93-120: the fragments one line contributes
SubLines(line, maxLineLength, cm) ==
  IF SkipLine(line) THEN <<>>
  ELSE IF FitsLine(line, maxLineLength) THEN <<line>>
  ELSE CutLoop(line, RuneStarts(line, 0), 1, 0, 0, maxLineLength, cm, <<>>)

\* line 92: the lines the outer loop ranges over
MessageLines(message) == SplitNL(TrimSpace(message))

RECURSIVE AllSubLines(_, _, _, _)
AllSubLines(ls, k, maxLineLength, cm) ==
  IF k > Len(ls) THEN <<>>
  ELSE SubLines(ls[k], maxLineLength, cm) \o AllSubLines(ls, k + 1, maxLineLength, cm)

\* lines 86-123
GetSubLines(message, maxLineLength, clippingMessage) ==
  AllSubLines(MessageLines(message), 1, maxLineLength, EffectiveMarker(clippingMessage))

\* ----------------------------------------------------------------- inputs
A == <<97>>                       \* "a"
NL == <<10>>                      \* "\n"
SP == <<32>>                      \* " "
Euro == <<226, 130, 172>>         \* U+20AC
Grin == <<240, 159, 152, 128>>    \* U+1F600
Repl == <<239, 191, 189>>         \* U+FFFD, the replacement character, well-formed
Cont == <<130>>                   \* a lone continuation byte: malformed text

Atoms == {A, NL, SP, Euro, Grin, Repl, Cont}

RECURSIVE Flatten(_)
Flatten(ss) == IF Len(ss) = 0 THEN <<>> ELSE Head(ss) \o Flatten(Tail(ss))

Pad(k) == [j \in 1..k |-> 97]

Texts ==
  { Flatten(cs) \o Pad(k) :
      cs \in UNION { [1..n -> Atoms] : n \in 0..MaxChars }, k \in {0, PadLen} }

Budgets == (-1..MaxBudget) \cup { Len(DefaultClippingMessage) + d : d \in {0, 2} }

Markers == { <<>>, <<95>>, <<46, 46, 46>> }   \* "" (the default marker), "_" and "..."

Ops == {"ClipMessage", "ClipOrSplitMessage", "GetSubLines"}

\* ------------------------------------------------------------ the machine
VARIABLES op, text, length, clippingMessage, splitMax, pc, msgParts, remainingText, result

vars == <<op, text, length, clippingMessage, splitMax, pc, msgParts, remainingText, result>>

inputs == <<op, text, length, clippingMessage, splitMax>>

Init ==
  /\ op \in Ops
  /\ text \in Texts
  /\ length \in Budgets
  /\ clippingMessage \in Markers
  /\ splitMax \in (IF op = "ClipOrSplitMessage" THEN 0..MaxParts ELSE {0})
  /\ pc = "call"
  /\ msgParts = <<>>
  /\ remainingText = <<>>
  /\ result = <<>>

\* a call of ClipMessage(text, length, clippingMessage)
CallClipMessage ==
  /\ pc = "call" /\ op = "ClipMessage"
  /\ LET c == ClipMessage(text, length, clippingMessage) IN
       IF c.panic
         THEN pc' = "panic" /\ result' = <<>>
         ELSE pc' = "done" /\ result' = <<c.text>>
  /\ UNCHANGED <<inputs, msgParts, remainingText>>

\* a call of GetSubLines(text, length, clippingMessage)
CallGetSubLines ==
  /\ pc = "call" /\ op = "GetSubLines"
  /\ result' = GetSubLines(text, length, clippingMessage)
  /\ pc' = "done"
  /\ UNCHANGED <<inputs, msgParts, remainingText>>

\* lines 237-238: ClipOrSplitMessage is entered
SplitEnter ==
  /\ pc = "call" /\ op = "ClipOrSplitMessage"
  /\ msgParts' = <<>>
  /\ remainingText' = text
  /\ pc' = "loop"
  /\ UNCHANGED <<inputs, result>>

\* lines 241-258: one iteration of the splitting loop
SplitIterate ==
  /\ pc = "loop"
  /\ SplitCond(msgParts, remainingText, length, splitMax)
  /\ LET chunk == Chunk(remainingText, length) IN
       /\ msgParts' = Append(msgParts, chunk)
       /\ remainingText' = Advance(remainingText, chunk, length)
  /\ UNCHANGED <<inputs, pc, result>>

\* lines 259-260: the loop is left, the rest is clipped and the parts returned
SplitReturn ==
  /\ pc = "loop"
  /\ ~SplitCond(msgParts, remainingText, length, splitMax)
  /\ LET c == ClipMessage(remainingText, length, clippingMessage) IN
       IF c.panic
         THEN pc' = "panic" /\ result' = <<>>
         ELSE pc' = "done" /\ result' = Append(msgParts, c.text)
  /\ UNCHANGED <<inputs, msgParts, remainingText>>

Next ==
  \/ CallClipMessage
  \/ CallGetSubLines
  \/ SplitEnter
  \/ SplitIterate
  \/ SplitReturn

Spec == Init /\ [][Next]_vars

TypeOK ==
  /\ op \in Ops
  /\ pc \in {"call", "loop", "done", "panic"}
  /\ length \in Budgets
  /\ splitMax \in 0..MaxParts

\* ------------------------------------------------------------- properties
Returned == pc = "done"

cmEff == EffectiveMarker(clippingMessage)

Max(a, b) == IF a >= b THEN a ELSE b

HasSuffix(f, m) == Len(f) >= Len(m) /\ SubSeq(f, Len(f) - Len(m) + 1, Len(f)) = m

\* C1 (as stated): segment returns at least 1 and at most maxParts fragments,
\* for every maxParts, also maxParts <= 0.
C1Original ==
  (op = "ClipOrSplitMessage" /\ Returned) =>
    (Len(result) >= 1 /\ Len(result) <= splitMax)

\* C1 (amended): whenever ClipOrSplitMessage returns, it returns at least 1
\* and at most max(1, splitMax) fragments.
C1Amended ==
  (op = "ClipOrSplitMessage" /\ Returned) =>
    (Len(result) >= 1 /\ Len(result) <= Max(1, splitMax))

\* the part bound, and not the length of the text, ended the loop
C1Witness ==
  /\ op = "ClipOrSplitMessage" /\ Returned
  /\ splitMax >= 2 /\ Len(result) = splitMax
  /\ Len(remainingText) > length

\* C2: for valid UTF-8 and maxLineLength > 0 every fragment of GetSubLines
\* has at most maxLineLength bytes.
C2Claim ==
  (op = "GetSubLines" /\ Returned /\ ValidString(text) /\ length > 0) =>
    \A k \in 1..Len(result) : Len(result[k]) <= length

\* C3: for budget > 0 every fragment returned by ClipOrSplitMessage has at
\* most budget bytes, the chunks of the loop and the final clipped fragment.
C3FragmentsFit ==
  (op = "ClipOrSplitMessage" /\ Returned /\ length > 0) =>
    \A k \in 1..Len(result) : Len(result[k]) <= length

\* chunks were emitted and the final fragment was cut and carries the marker
C3Witness ==
  /\ op = "ClipOrSplitMessage" /\ Returned /\ length > 0
  /\ Len(result) >= 2
  /\ Len(remainingText) > length
  /\ HasSuffix(result[Len(result)], cmEff)

\* C4: for valid UTF-8 and budget > 0 no fragment of GetSubLines or
\* ClipOrSplitMessage holds an incomplete character, and the remainder of the
\* splitting loop never starts inside one.
C4Claim ==
  (ValidString(text) /\ length > 0) =>
    /\ (op \in {"GetSubLines", "ClipOrSplitMessage"} /\ Returned) =>
         \A k \in 1..Len(result) : ValidString(result[k])
    /\ (op = "ClipOrSplitMessage" /\ pc = "loop") =>
         /\ \A k \in 1..Len(msgParts) : ValidString(msgParts[k])
         /\ ValidString(remainingText)

\* C5: a call of ClipMessage or ClipOrSplitMessage with a text longer than the
\* budget and a budget no larger than the effective marker neither returns
\* fragments nor panics (it reports a configuration error instead).
C5Claim ==
  (/\ op \in {"ClipMessage", "ClipOrSplitMessage"}
   /\ Len(text) > length
   /\ length <= Len(cmEff)) =>
    pc \notin {"done", "panic"}

\* C6: in ClipOrSplitMessage the emitted parts followed by the remaining text
\* are the original text, before and after every iteration of the loop.
C6NoTextLost ==
  (op = "ClipOrSplitMessage" /\ pc # "call") =>
    Flatten(msgParts) \o remainingText = text

\* two chunks were emitted, one of them after backing over some bytes
C6Witness ==
  /\ op = "ClipOrSplitMessage" /\ pc = "loop"
  /\ Len(msgParts) >= 2 /\ length > 0
  /\ \E k \in 1..Len(msgParts) : Len(msgParts[k]) < length
  /\ Len(remainingText) > 0

\* C7: ClipMessage returns a text within budget unchanged, and clipping its
\* result again changes nothing.
C7ClipIdempotent ==
  (op = "ClipMessage" /\ Returned) =>
    /\ (Len(text) <= length => result[1] = text)
    /\ ClipMessage(result[1], length, clippingMessage)
         = [panic |-> FALSE, text |-> result[1]]

\* the first clip did cut the text
C7Witness ==
  /\ op = "ClipMessage" /\ Returned
  /\ Len(text) > length
  /\ result[1] # text
  /\ HasSuffix(result[1], cmEff)

\* C8 (as stated): no element returned by GetSubLines or ClipOrSplitMessage
\* is the empty string, for every input.
C8Original ==
  (op \in {"GetSubLines", "ClipOrSplitMessage"} /\ Returned) =>
    \A k \in 1..Len(result) : result[k] # <<>>

\* C8 (amended): no element returned by GetSubLines is the empty string, for
\* every input; no element returned by ClipOrSplitMessage is the empty string
\* when the text is not empty.
C8Amended ==
  (/\ Returned
   /\ \/ op = "GetSubLines"
      \/ op = "ClipOrSplitMessage" /\ text # <<>>) =>
    \A k \in 1..Len(result) : result[k] # <<>>

\* a message with an empty line between two lines with content
C8Witness ==
  /\ op = "GetSubLines" /\ Returned
  /\ Len(result) >= 2
  /\ \E k \in 1..Len(MessageLines(text)) : MessageLines(text)[k] = <<>>

StripSuffix(f, m) == SubSeq(f, 1, Len(f) - Len(m))

NonEmptyLines(message) == SelectSeq(MessageLines(message), LAMBDA l : l # <<>>)

\* frags are, line by line and in order, the pieces of the lines ls: each line
\* is n >= 1 consecutive fragments, the first n-1 ending in the marker, and
\* the pieces without their markers put together are the line
RECURSIVE Reassembles(_, _, _)
Reassembles(frags, ls, m) ==
  IF Len(ls) = 0 THEN Len(frags) = 0
  ELSE \E n \in 1..Len(frags) :
         /\ \A j \in 1..(n - 1) : HasSuffix(frags[j], m)
         /\ Flatten([j \in 1..n |->
                      IF j < n THEN StripSuffix(frags[j], m) ELSE frags[j]]) = Head(ls)
         /\ Reassembles(SubSeq(frags, n + 1, Len(frags)), Tail(ls), m)

\* C9: GetSubLines loses and reorders nothing: its fragments are, in order,
\* the pieces of the non-empty lines of the trimmed message; every piece but
\* the last of a line carries the marker and the pieces of a line put together
\* are the line, byte for byte.
C9NothingLost ==
  (op = "GetSubLines" /\ Returned) =>
    Reassembles(result, NonEmptyLines(text), cmEff)

\* two lines with content, an empty line dropped, and a line cut in pieces
C9Witness ==
  /\ op = "GetSubLines" /\ Returned
  /\ Len(NonEmptyLines(text)) >= 2
  /\ Len(MessageLines(text)) > Len(NonEmptyLines(text))
  /\ Len(result) > Len(NonEmptyLines(text)) + 1
  /\ length > Len(cmEff)

\* the prefix p ends on a complete character
EndsComplete(p) ==
  \/ Len(p) = 0
  \/ LET d == DecodeLastRuneInString(p) IN ~(d.r = RuneError /\ d.size = 1)

\* the boundary back-up of spec section 4.1: the largest index <= offset,
\* at most 3 below it, where the prefix ends on a complete character, and
\* offset-3 when there is none
BackUpToBoundary(buffer, offset) ==
  LET floor == Max(0, offset - 3)
      cands == { j \in floor..offset : EndsComplete(Slice(buffer, 0, j)) }
  IN IF cands = {} THEN floor
     ELSE CHOOSE j \in cands : \A i \in cands : i <= j

\* C10: the cut made by ClipMessage and every chunk of ClipOrSplitMessage end
\* at the boundary the back-up returns: the largest character boundary at or
\* before the offset, never more than 3 bytes before it.
C10Claim ==
  /\ (op = "ClipMessage" /\ Returned /\ Len(text) > length) =>
       result[1] = Slice(text, 0, BackUpToBoundary(text, length - Len(cmEff))) \o cmEff
  /\ (op = "ClipOrSplitMessage" /\ pc = "loop" /\ Len(msgParts) > 0 /\ length > 0) =>
       LET chunk == msgParts[Len(msgParts)]
           before == chunk \o remainingText
       IN chunk = Slice(before, 0, BackUpToBoundary(before, length))

====
